---- MODULE Spec2Model ----
(***************************************************************************)
(* A model of two pieces of the pf2e rules engine:                         *)
(*   - SpellcastingEntryPF2e (src/unnamed/part_000): the cached spells     *)
(*     collection, addSpell, the prepared-slot updates and getSpellData;   *)
(*   - ActorTraitsRuleElement.onApplyActiveEffects                         *)
(*     (src/src/module/rules/rule-element/actor-traits.ts).                *)
(* The host application (actor and item documents, the persistence API)    *)
(* appears only through the calls the code makes to it. A call is recorded *)
(* in hostCalls and queued in pending when the code makes it; the host     *)
(* applies the oldest pending call in a later step, so other operations    *)
(* run between a call and its effect. Applying a call, the host prepares   *)
(* the changed documents again, which runs the entry's prepareData.        *)
(***************************************************************************)
EXTENDS Integers, Sequences, FiniteSets, TLC

VARIABLES
    actorKind,          \* this.actor: "none", "creature" or "other" (not a CreaturePF2e)
    actorLevel,         \* this.actor.level
    prepared,           \* data.data.prepared.value
    flexible,           \* data.data.prepared.flexible
    showSlotlessLevels, \* data.data.showSlotlessLevels.value
    signatureSpells,    \* data.data.signatureSpells.value
    slots,              \* data.data.slots: level -> [max, value, prepared]
    items,              \* this.actor.itemTypes.spell: id -> spell data
    _spells,            \* the private cache behind the spells getter
    called,             \* the last operation invoked and its arguments
    hostCalls,          \* the host persistence calls that operation made
    result,             \* what that operation returned
    pending,            \* the host calls made and not yet applied, oldest first
    issued,             \* how many host calls have been made
    focus,              \* this.actor.data.data.resources.focus
    actorType,          \* this.actor.type of the rule element's actor
    traits,             \* this.actor.system.traits: absent, or its value list
    rollOptions,        \* the keys of this.actor.rollOptions.all
    add,                \* the rule's add list, injected properties resolved
    remove,             \* the rule's remove list, injected properties resolved
    validationFailures  \* the messages the last operation gave failValidation

\* The data of the entry and its actor no operation here writes.
entryData == <<actorKind, actorLevel, prepared, flexible, showSlotlessLevels,
               signatureSpells, focus>>

entryVars == <<entryData, slots, items, _spells, called, hostCalls, result,
               pending, issued>>

traitVars == <<actorType, traits, rollOptions, add, remove, validationFailures>>

vars == <<entryVars, traitVars>>

----------------------------------------------------------------------------
\* Bounds of the model.

\* Spell ids an actor holds before any operation.
MaxSpells == 1
\* Highest spell level, slot level and half actor level explored.
MaxLevel == 2
\* Slot positions per level: 0 .. MaxSlots - 1.
MaxSlots == 1
\* Prepared-slot records a sheet's data.slots holds over all levels.
MaxSlotRecords == 1
\* Math.min(10, ...) in highestLevel.
TopLevel == 10
\* Longest add or remove list of a rule.
MaxRuleTraits == 2
\* Host calls made in one behaviour.
MaxCalls == 2

----------------------------------------------------------------------------
\* Values.

NULL == "null"
\* What an operation returned, or that it threw.
Returned(v) == [status |-> "returned", value |-> v]
Thrown == [status |-> "thrown", value |-> <<>>]
\* The Promise of an operation that waits for the host.
Awaiting == [status |-> "awaiting", value |-> <<>>]
\* The cache of the spells getter: null, or a collection keyed by spell id.
Wiped == [built |-> FALSE, ids |-> {}]
Collection(ids) == [built |-> TRUE, ids |-> ids]

\* this.id, and the id of some other entry of the same actor.
EntryId == "e1"
OtherEntryId == "e2"
\* this.actor.id, and the id of some other actor.
ActorId == "A"
OtherActorId == "B"

SpellIds == 1 .. MaxSpells
\* The id a spell has in a compendium or on another actor: no id of the
\* actor's own items.
ForeignId == MaxSpells + MaxCalls + 1
\* The target levels addSpell is given.
TargetLevels == {0, 1, MaxLevel}
SpellLevels == 1 .. MaxLevel
SlotLevels == 0 .. MaxLevel
SlotPositions == 0 .. MaxSlots - 1
\* The id of an emptied slot (null).
NullId == 0
\* game.i18n.localize("PF2E.SpellSlotEmpty")
SpellSlotEmpty == "PF2E.SpellSlotEmpty"
Locations == {EntryId, OtherEntryId}
PreparationTypes == {"prepared", "spontaneous", "innate", "focus", "ritual"}

Max(a, b) == IF a >= b THEN a ELSE b
Min(a, b) == IF a <= b THEN a ELSE b

\* The part of a spell's data the entry reads: its base level, the value of its
\* heightenedLevel getter, and the three category getters.
ItemData ==
    { d \in [level : SpellLevels, heightenedLevel : SpellLevels,
             isCantrip : BOOLEAN, isFocusSpell : BOOLEAN, isRitual : BOOLEAN,
             location : Locations \cup {""}] :
        /\ d.heightenedLevel >= d.level
        /\ d.isRitual => (~d.isCantrip /\ ~d.isFocusSpell) }

\* A spell nobody has heightened: its heightened level is its base level.
Unheightened(d) == d.heightenedLevel = d.level
\* A spell of the plain category: no cantrip, focus spell or ritual.
Plain(d) == ~d.isCantrip /\ ~d.isFocusSpell /\ ~d.isRitual

\* A spell document as an operation receives it.
Doc(id, actor, d) ==
    [id |-> id, actor |-> actor, level |-> d.level,
     heightenedLevel |-> d.heightenedLevel, isCantrip |-> d.isCantrip,
     isFocusSpell |-> d.isFocusSpell, isRitual |-> d.isRitual,
     location |-> d.location]

DataOf(spell) ==
    [level |-> spell.level, heightenedLevel |-> spell.heightenedLevel,
     isCantrip |-> spell.isCantrip, isFocusSpell |-> spell.isFocusSpell,
     isRitual |-> spell.isRitual, location |-> spell.location]

\* The spells of the owning actor, as documents.
OwnSpells == { Doc(i, ActorId, items[i]) : i \in DOMAIN items }
\* Spells dragged in from a compendium (no actor): level-1 spells of every
\* category; and from another actor: its plain level-1 spell.
ForeignSpells ==
    { Doc(ForeignId, NULL, d) : d \in { x \in ItemData : /\ x.location = ""
                                                         /\ x.level = 1
                                                         /\ Unheightened(x) } }
    \cup
    { Doc(ForeignId, OtherActorId, d) : d \in { x \in ItemData : /\ x.location = ""
                                                                 /\ x.level = 1
                                                                 /\ Unheightened(x)
                                                                 /\ Plain(x) } }

----------------------------------------------------------------------------
\* Getters of the entry.

isPrepared == prepared = "prepared"
isFlexible == isPrepared /\ flexible
isSpontaneous == prepared = "spontaneous"
isInnate == prepared = "innate"
isFocusPool == prepared = "focus"
isRitual == prepared = "ritual"

\* A spells getter that forgets the location filter.
LocatedAnywhere(its) ==
    IF actorKind = "none" THEN {} ELSE DOMAIN its

\* The filter of the spells getter: the ids of the actor's spells located here.
LocatedHere(its) ==
    IF actorKind = "none" THEN {}
    ELSE { i \in DOMAIN its : its[i].location = EntryId }

\* get spells(): builds the cache when it is wiped, and returns the cache.
spells == IF ~_spells.built THEN Collection(LocatedHere(items)) ELSE _spells

----------------------------------------------------------------------------
\* Operations.

\* Reading the spells getter.
ReadSpells ==
    /\ _spells' = spells
    /\ called' = [name |-> "spells"]
    /\ hostCalls' = <<>>
    /\ result' = Returned(spells.ids)
    /\ UNCHANGED <<traitVars, entryData, slots, items, pending, issued>>

prepareData ==
    /\ _spells' = Wiped
    /\ called' = [name |-> "prepareData"]
    /\ hostCalls' = <<>>
    /\ result' = Returned(<<>>)
    /\ UNCHANGED <<traitVars, entryData, slots, items, pending, issued>>

\* The early return of addSpell.
AlreadyHere(spell, targetLevel) ==
    spell.location = EntryId /\ spell.heightenedLevel = targetLevel

\* The data addSpell hands to the host.
AddedSpellData(spell, targetLevel) ==
    LET moved == [spell EXCEPT !.location = EntryId]
    IN  IF ~spell.isCantrip /\ ~spell.isFocusSpell /\ ~spell.isRitual
           /\ (isSpontaneous \/ isInnate)
        THEN [moved EXCEPT !.heightenedLevel = Max(spell.level, targetLevel)]
        ELSE moved

\* An addSpell that moves whatever it is given, whoever owns it.
HostOpAlwaysUpdate(spell) == "update"

\* Which host call addSpell makes.
HostOp(spell) == IF spell.actor = ActorId THEN "update" ELSE "create"

\* addSpell up to its await: it throws, returns the empty list, or makes the
\* host call and is left waiting for it.
addSpell(spell, targetLevel) ==
    /\ called' = [name |-> "addSpell", spell |-> spell, targetLevel |-> targetLevel]
    /\ IF actorKind # "creature"
       THEN /\ result' = Thrown
            /\ hostCalls' = <<>>
            /\ UNCHANGED <<pending, issued>>
       ELSE IF AlreadyHere(spell, targetLevel)
       THEN /\ result' = Returned(<<>>)
            /\ hostCalls' = <<>>
            /\ UNCHANGED <<pending, issued>>
       ELSE LET call == [op |-> HostOp(spell),
                         data |-> AddedSpellData(spell, targetLevel)]
            IN  /\ issued < MaxCalls
                /\ hostCalls' = <<call>>
                /\ pending' = Append(pending, call)
                /\ issued' = issued + 1
                /\ result' = Awaiting
    /\ UNCHANGED <<traitVars, entryData, slots, items, _spells>>

AddSpell ==
    \E spell \in OwnSpells \cup ForeignSpells, targetLevel \in TargetLevels :
        addSpell(spell, targetLevel)

\* actor.updateEmbeddedDocuments("Item", [data]): the item with that id takes the data.
UpdateEmbedded(its, data) == [its EXCEPT ![data.id] = DataOf(data)]

\* The id the host gives a created item: the first one not in use.
NextId(its) ==
    CHOOSE n \in 1 .. Cardinality(DOMAIN its) + 1 :
        n \notin DOMAIN its /\ \A m \in 1 .. n - 1 : m \in DOMAIN its

\* actor.createEmbeddedDocuments("Item", [data]): a new item, under a fresh id.
CreateEmbedded(its, newId, data) ==
    [i \in DOMAIN its \cup {newId} |-> IF i = newId THEN DataOf(data) ELSE its[i]]

\* The host applies the oldest pending call to the actor's items and prepares
\* the actor and its items again, which runs the entry's prepareData; the
\* addSpell waiting for the call returns the documents the host hands back.
embeddedDocumentsResolved ==
    /\ pending # <<>>
    /\ LET call == Head(pending)
           newId == NextId(items)
       IN  /\ called' = [name |-> "addSpell.resolved", call |-> call]
           /\ IF call.op = "update"
              THEN /\ items' = UpdateEmbedded(items, call.data)
                   /\ result' = Returned(<<call.data.id>>)
              ELSE /\ items' = CreateEmbedded(items, newId, call.data)
                   /\ result' = Returned(<<newId>>)
    /\ _spells' = Wiped
    /\ pending' = Tail(pending)
    /\ hostCalls' = <<>>
    /\ UNCHANGED <<traitVars, entryData, slots, issued>>

----------------------------------------------------------------------------
\* Prepared slots. A slot record is a function from the fields it has ("id",
\* "prepared", "name", "expended") to their values; data.slots[level].prepared
\* maps the positions that hold a record to it. An update is a record of the
\* level and position it addresses, the fields it sets and the fields its -=
\* keys remove, and of max and value when it carries them.

\* data.slots[slot<level>].prepared[position], or the empty record for undefined.
SlotAt(sl, level, position) ==
    IF position \in DOMAIN sl[level].prepared
    THEN sl[level].prepared[position] ELSE <<>>

\* A prepareSpell that forgets the cantrip exception.
RefusedCantripsToo(spell, spellLevel) == spell.level > spellLevel

\* The guard of prepareSpell.
Refused(spell, spellLevel) ==
    spell.level > spellLevel /\ ~(spellLevel = 0 /\ spell.isCantrip)

\* The updates object prepareSpell builds.
PrepareUpdates(spell, spellLevel, spellSlot) ==
    LET slot == SlotAt(slots, spellLevel, spellSlot)
    IN  [op |-> "update", level |-> spellLevel, position |-> spellSlot,
         set |-> [id |-> spell.id],
         unset |-> {"prepared", "name", "expended"} \cap DOMAIN slot]

\* this.update(updates): the call is made and its Promise returned.
Update(updates) ==
    /\ issued < MaxCalls
    /\ hostCalls' = <<updates>>
    /\ pending' = Append(pending, updates)
    /\ issued' = issued + 1
    /\ result' = Awaiting

prepareSpell(spell, spellLevel, spellSlot) ==
    /\ called' = [name |-> "prepareSpell", spell |-> spell,
                  spellLevel |-> spellLevel, spellSlot |-> spellSlot]
    /\ IF Refused(spell, spellLevel)
       THEN /\ result' = Returned(<<>>)
            /\ hostCalls' = <<>>
            /\ UNCHANGED <<pending, issued>>
       ELSE Update(PrepareUpdates(spell, spellLevel, spellSlot))
    /\ UNCHANGED <<traitVars, entryData, slots, items, _spells>>

PrepareSpell ==
    \E spell \in OwnSpells, spellLevel \in SlotLevels, spellSlot \in SlotPositions :
        prepareSpell(spell, spellLevel, spellSlot)

unprepareSpell(spellLevel, spellSlot) ==
    /\ called' = [name |-> "unprepareSpell", spellLevel |-> spellLevel,
                  spellSlot |-> spellSlot]
    /\ Update([op |-> "update", level |-> spellLevel, position |-> spellSlot,
               set |-> [name |-> SpellSlotEmpty, id |-> NullId, prepared |-> FALSE],
               unset |-> {}])
    /\ UNCHANGED <<traitVars, entryData, slots, items, _spells>>

UnprepareSpell ==
    \E spellLevel \in SlotLevels, spellSlot \in SlotPositions :
        unprepareSpell(spellLevel, spellSlot)

setSlotExpendedState(spellLevel, spellSlot, isExpended) ==
    /\ called' = [name |-> "setSlotExpendedState", spellLevel |-> spellLevel,
                  spellSlot |-> spellSlot, isExpended |-> isExpended]
    /\ Update([op |-> "update", level |-> spellLevel, position |-> spellSlot,
               set |-> [expended |-> isExpended], unset |-> {}])
    /\ UNCHANGED <<traitVars, entryData, slots, items, _spells>>

SetSlotExpendedState ==
    \E spellLevel \in SlotLevels, spellSlot \in SlotPositions, isExpended \in BOOLEAN :
        setSlotExpendedState(spellLevel, spellSlot, isExpended)

\* Math.clamped(value, min, max)
Clamped(value, min, max) == Min(max, Max(value, min))

\* _preUpdate: the max of a slot update is raised to 0, its value clamped
\* between 0 and the max of the update or, without one, of the entry.
_preUpdate(u) ==
    LET withMax == IF "max" \in DOMAIN u THEN [u EXCEPT !.max = Max(@, 0)] ELSE u
        max == IF "max" \in DOMAIN withMax THEN withMax.max ELSE slots[u.level].max
    IN  IF "value" \in DOMAIN withMax
        THEN [withMax EXCEPT !.value = Clamped(@, 0, max)]
        ELSE withMax

\* The host's merge of an update into a record: fields named -=f go, fields set
\* are overwritten, the rest stay.
Merge(old, set, unset) ==
    [f \in (DOMAIN old \ unset) \cup DOMAIN set |->
        IF f \in DOMAIN set THEN set[f] ELSE old[f]]

\* The host's merge of an update into data.slots.
ApplyUpdate(sl, u) ==
    LET merged == Merge(SlotAt(sl, u.level, u.position), u.set, u.unset)
        before == sl[u.level]
    IN  [sl EXCEPT ![u.level] =
            [max |-> IF "max" \in DOMAIN u THEN u.max ELSE before.max,
             value |-> IF "value" \in DOMAIN u THEN u.value ELSE before.value,
             prepared |-> [p \in DOMAIN before.prepared \cup {u.position} |->
                              IF p = u.position THEN merged ELSE before.prepared[p]]]]

\* The host takes the oldest pending update through _preUpdate, merges it
\* into the entry's data and prepares the entry again, which runs prepareData.
updateResolved ==
    /\ pending # <<>>
    /\ called' = [name |-> "update.resolved", updates |-> Head(pending)]
    /\ slots' = ApplyUpdate(slots, _preUpdate(Head(pending)))
    /\ pending' = Tail(pending)
    /\ hostCalls' = <<>>
    /\ result' = Returned(<<>>)
    /\ _spells' = Wiped
    /\ UNCHANGED <<traitVars, entryData, items, issued>>

\* The places of data.slots that hold a slot record.
SlotRecords(sl) ==
    { c \in SlotLevels \X SlotPositions : c[2] \in DOMAIN sl[c[1]].prepared }

----------------------------------------------------------------------------
\* getSpellData. The view fields that only restate the entry's data (id, name,
\* tradition, the casting-type flags), the labels, displayPrepared and the chat
\* data the host computes are left out of the returned record.

MaxOf(S) == CHOOSE x \in S : \A y \in S : y <= x
MinOf(S) == CHOOSE x \in S : \A y \in S : x <= y
\* Math.ceil(n / 2)
CeilHalf(n) == (n + 1) \div 2

\* this.data.sort of a spell: the host hands out sort keys in creation order,
\* which is the order of the ids here.
SortKey(id) == id

\* this.spells.contents.sort(...): the ids of a collection by ascending sort key.
RECURSIVE SortBySortKey(_)
SortBySortKey(ids) ==
    IF ids = {} THEN <<>>
    ELSE LET first == CHOOSE x \in ids : \A y \in ids : SortKey(x) <= SortKey(y)
         IN  <<first>> \o SortBySortKey(ids \ {first})

\* get highestLevel(); Math.max() of no spells is -Infinity, so the actor's
\* spell level decides alone.
highestLevel ==
    LET ids == spells.ids
        actorSpellLevel == CeilHalf(IF actorKind = "none" THEN 0 ELSE actorLevel)
    IN  Min(TopLevel,
            IF ids = {} THEN actorSpellLevel
            ELSE Max(MaxOf({ items[i].heightenedLevel : i \in ids }), actorSpellLevel))

\* Entries of an active list: an active spell is a record with a spell field and
\* the optional fields expended, signature and virtual; the others are the null
\* of an unfilled slot and the hole an out-of-range index leaves in the array.
NullActive == [empty |-> "null"]
HoleActive == [empty |-> "undefined"]
IsActiveSpell(a) == "spell" \in DOMAIN a
HasFlag(a, f) == f \in DOMAIN a /\ a[f] = TRUE

\* The keys of the two groupBy calls, and the group of a level: the sorted
\* spells whose key is the level.
BaseLevelKey(i) == IF items[i].isCantrip THEN 0 ELSE items[i].level
HeightenedKey(i) == IF items[i].isCantrip THEN 0 ELSE items[i].heightenedLevel
GroupByBaseLevel(sorted, level) ==
    SelectSeq(sorted, LAMBDA i : BaseLevelKey(i) = level)
GroupByHeightenedLevel(sorted, level) ==
    SelectSeq(sorted, LAMBDA i : HeightenedKey(i) = level)

\* The active list of a level of a prepared entry.
PreparedActive(level) ==
    LET data == slots[level]
        Filled(p) == LET value == data.prepared[p]
                     IN  /\ "id" \in DOMAIN value
                         /\ value.id # NullId
                         /\ value.id \in spells.ids
        filled == { p \in DOMAIN data.prepared : Filled(p) }
        maxPrepared == Max(data.max, 0)
        length == Max(maxPrepared, IF filled = {} THEN 0 ELSE MaxOf(filled) + 1)
    IN  IF (showSlotlessLevels \/ data.max > 0) /\ (level = 0 \/ ~isFlexible)
        THEN [k \in 1 .. length |->
                IF (k - 1) \in filled
                THEN LET value == data.prepared[k - 1]
                     IN  IF "expended" \in DOMAIN value
                         THEN [spell |-> value.id, expended |-> value.expended]
                         ELSE [spell |-> value.id]
                ELSE IF k <= maxPrepared THEN NullActive ELSE HoleActive]
        ELSE <<>>

\* The levels of a prepared entry.
PreparedLevels(sorted) ==
    [k \in 1 .. highestLevel + 1 |->
        LET level == k - 1
            data == slots[level]
        IN  [level |-> level,
             isCantrip |-> level = 0,
             uses |-> IF level > 0 /\ isFlexible
                      THEN [value |-> data.value, max |-> data.max]
                      ELSE [max |-> data.max],
             active |-> PreparedActive(level)]]

\* The prep list of a prepared entry.
PrepList(sorted) ==
    [level \in 0 .. highestLevel |->
        LET here == GroupByBaseLevel(sorted, level)
        IN  [k \in 1 .. Len(here) |->
                [spell |-> here[k],
                 signature |-> isFlexible /\ here[k] \in signatureSpells]]]

ActiveSpells(ids) == [k \in 1 .. Len(ids) |-> [spell |-> ids[k]]]

\* actor.data.data.resources.focus ?? { value: 0, max: 0 }
FocusResource ==
    IF focus.present THEN [value |-> focus.value, max |-> focus.max]
    ELSE [value |-> 0, max |-> 0]

\* The levels of a focus pool: the cantrips, then every other spell together.
FocusLevels(sorted) ==
    LET cantrips == SelectSeq(sorted, LAMBDA i : items[i].isCantrip)
        leveled == SelectSeq(sorted, LAMBDA i : ~items[i].isCantrip)
    IN  (IF cantrips # <<>>
         THEN <<[level |-> 0, isCantrip |-> TRUE, active |-> ActiveSpells(cantrips)]>>
         ELSE <<>>)
        \o
        (IF leveled # <<>>
         THEN <<[level |-> Max(1, CeilHalf(actorLevel)), isCantrip |-> FALSE,
                 uses |-> FocusResource, active |-> ActiveSpells(leveled)]>>
         ELSE <<>>)

\* The levels of an innate, spontaneous or ritual entry, from level on.
RECURSIVE OtherLevels(_, _)
OtherLevels(sorted, level) ==
    IF level > highestLevel THEN <<>>
    ELSE LET data == slots[level]
             here == GroupByHeightenedLevel(sorted, level)
             alwaysShowHeader == ~isRitual
             noUses == isRitual \/ level = 0
             active == ActiveSpells(here)
             hideForSpontaneous == isSpontaneous /\ ~noUses /\ data.max = 0
             hideForInnate == isInnate /\ Len(active) = 0
             shown == /\ alwaysShowHeader \/ Len(here) > 0
                      /\ ~(~showSlotlessLevels /\ (hideForSpontaneous \/ hideForInnate))
             entry == IF noUses
                      THEN [level |-> level, isCantrip |-> level = 0, active |-> active]
                      ELSE [level |-> level, isCantrip |-> level = 0,
                            uses |-> [value |-> data.value, max |-> data.max],
                            active |-> active]
         IN  (IF shown THEN <<entry>> ELSE <<>>) \o OtherLevels(sorted, level + 1)

\* One signature spell against one level of the results.
MarkSignature(res, spellId) ==
    IF items[spellId].level > res.level THEN res
    ELSE IF ~showSlotlessLevels /\ "uses" \in DOMAIN res /\ res.uses.max = 0 THEN res
    ELSE LET found == { k \in 1 .. Len(res.active) :
                          /\ IsActiveSpell(res.active[k])
                          /\ res.active[k].spell = spellId }
         IN  IF found # {}
             THEN [res EXCEPT !.active[MinOf(found)] = Merge(@, [signature |-> TRUE], {})]
             ELSE [res EXCEPT !.active =
                     Append(@, [spell |-> spellId, signature |-> TRUE, virtual |-> TRUE])]

\* The signature spells, one after the other, against every level.
RECURSIVE HandleSignatureSpells(_, _)
HandleSignatureSpells(results, spellIds) ==
    IF spellIds = <<>> THEN results
    ELSE LET spellId == Head(spellIds)
             marked == IF spellId \in spells.ids
                       THEN [k \in 1 .. Len(results) |-> MarkSignature(results[k], spellId)]
                       ELSE results
         IN  HandleSignatureSpells(marked, Tail(spellIds))

RECURSIVE SumSlots(_, _)
SumSlots(results, k) ==
    IF k > Len(results) THEN 0
    ELSE (IF ~results[k].isCantrip /\ "uses" \in DOMAIN results[k]
          THEN results[k].uses.max ELSE 0) + SumSlots(results, k + 1)

\* What getSpellData returns.
SpellData ==
    LET sorted == SortBySortKey(spells.ids)
        results == IF isPrepared THEN PreparedLevels(sorted)
                   ELSE IF isFocusPool THEN FocusLevels(sorted)
                   ELSE OtherLevels(sorted, 0)
        levels == IF isSpontaneous \/ isFlexible
                  THEN HandleSignatureSpells(results, SortBySortKey(signatureSpells))
                  ELSE results
    IN  [levels |-> levels,
         spellPrepList |-> IF isPrepared THEN PrepList(sorted) ELSE <<>>,
         flexibleAvailable |->
            IF isFlexible
            THEN <<[value |-> Cardinality(signatureSpells), max |-> SumSlots(levels, 1)]>>
            ELSE <<>>]

getSpellData ==
    /\ called' = [name |-> "getSpellData"]
    /\ hostCalls' = <<>>
    /\ IF actorKind # "creature"
       THEN result' = Thrown /\ _spells' = _spells
       ELSE result' = Returned(SpellData) /\ _spells' = spells
    /\ UNCHANGED <<traitVars, entryData, slots, items, pending, issued>>

----------------------------------------------------------------------------
\* ActorTraitsRuleElement.

ActorTypes == {"character", "npc", "familiar", "hazard", "vehicle"}

\* The trait dictionaries of CONFIG.PF2E, cut down to a few keys each.
creatureTraits == {"undead", "construct", "fire"}
hazardTraits == {"trap", "fire"}
vehicleTraits == {"fire"}

\* Property names every plain object inherits from Object.prototype; the
\* dictionaries are plain objects.
ObjectPrototypeKeys == {"constructor", "toString"}

\* The trait names rules and actors use here: dictionary keys, a name no
\* dictionary has, and a name of an inherited property.
TraitNames == {"undead", "fire", "trap", "bogus", "constructor"}

Modes == {"construct", "living", "undead"}
ModeAffecting == {"construct", "undead"}
TraitOption(trait) == <<"self:trait", trait>>
ModeOption(mode) == <<"self:mode", mode>>

traitsDictionary ==
    CASE actorType \in {"character", "familiar", "npc"} -> creatureTraits
      [] actorType = "hazard" -> hazardTraits
      [] actorType = "vehicle" -> vehicleTraits

\* trait in dictionary: true of the dictionary's own keys and of the property
\* names the object inherits.
In(trait, dictionary) ==
    trait \in dictionary \/ trait \in ObjectPrototypeKeys

Includes(seq, x) == \E k \in 1 .. Len(seq) : seq[k] = x

\* #handleModeAffectingTrait: the mode options go, the actor's mode of being
\* comes back.
handleModeAffectingTrait(options, modeOfBeing) ==
    (options \ { ModeOption(m) : m \in Modes }) \cup {ModeOption(modeOfBeing)}

\* The loop over the new traits, from a state st = [value, options, failures].
RECURSIVE AddTraits(_, _, _)
AddTraits(newTraits, st, modeOfBeing) ==
    IF newTraits = <<>> THEN st
    ELSE LET trait == Head(newTraits)
         IN  IF ~In(trait, traitsDictionary)
             THEN [st EXCEPT !.failures = <<<<trait, "is not a recognized trait">>>>]
             ELSE AddTraits(Tail(newTraits),
                    [st EXCEPT
                        !.value = Append(@, trait),
                        !.options =
                            IF trait \in ModeAffecting
                            THEN handleModeAffectingTrait(@ \cup {TraitOption(trait)},
                                                          modeOfBeing)
                            ELSE @ \cup {TraitOption(trait)}],
                    modeOfBeing)

\* The loop over the traits to remove.
RECURSIVE RemoveTraits(_, _, _)
RemoveTraits(toRemoves, st, modeOfBeing) ==
    IF toRemoves = <<>> THEN st
    ELSE LET trait == Head(toRemoves)
         IN  RemoveTraits(Tail(toRemoves),
                [st EXCEPT
                    !.value = SelectSeq(@, LAMBDA t : t # trait),
                    !.options =
                        IF trait \in ModeAffecting
                        THEN handleModeAffectingTrait(@ \ {TraitOption(trait)},
                                                      modeOfBeing)
                        ELSE @ \ {TraitOption(trait)}],
                modeOfBeing)

\* onApplyActiveEffects, given what this.test() returns and what the actor's
\* modeOfBeing getter returns when a mode-affecting trait is handled.
onApplyActiveEffects(test, modeOfBeing) ==
    /\ called' = [name |-> "onApplyActiveEffects", test |-> test]
    /\ hostCalls' = <<>>
    /\ result' = Returned(<<>>)
    /\ IF ~test \/ ~traits.present
       THEN /\ validationFailures' = <<>>
            /\ UNCHANGED <<traits, rollOptions>>
       ELSE LET newTraits == SelectSeq(add, LAMBDA t : ~Includes(traits.value, t))
                start == [value |-> traits.value, options |-> rollOptions,
                          failures |-> <<>>]
                added == AddTraits(newTraits, start, modeOfBeing)
                done == IF added.failures # <<>> THEN added
                        ELSE RemoveTraits(remove, added, modeOfBeing)
            IN  /\ traits' = [present |-> TRUE, value |-> done.value]
                /\ rollOptions' = done.options
                /\ validationFailures' = done.failures
    /\ UNCHANGED <<entryData, slots, items, _spells, pending, issued>>
    /\ UNCHANGED <<actorType, add, remove>>

OnApplyActiveEffects ==
    \E test \in BOOLEAN, modeOfBeing \in Modes : onApplyActiveEffects(test, modeOfBeing)

----------------------------------------------------------------------------
\* An actor without a focus resource, and the focus resources of the others.
NoFocus == [present |-> FALSE, value |-> 0, max |-> 0]
FocusPools ==
    {NoFocus} \cup { [present |-> TRUE, value |-> v, max |-> m] : v, m \in 0 .. 1 }

EmptySlots == [l \in 0 .. MaxLevel |-> [max |-> 0, value |-> 0, prepared |-> <<>>]]

\* No rule element is at work.
NoRule ==
    /\ actorType = "npc"
    /\ traits = [present |-> TRUE, value |-> <<>>]
    /\ rollOptions = {ModeOption("living")}
    /\ add = <<>>
    /\ remove = <<>>
    /\ validationFailures = <<>>

\* An actor's spells before any operation: each id absent, or a plain level-1
\* spell of this entry or of the other one.
InitialItems ==
    UNION { [S -> { d \in ItemData : /\ d.location # ""
                                     /\ d.level = 1
                                     /\ Unheightened(d)
                                     /\ Plain(d) }] :
            S \in SUBSET SpellIds }

Init ==
    /\ actorKind \in {"none", "creature", "other"}
    /\ actorLevel = 1
    /\ prepared \in {"prepared", "spontaneous", "innate"}
    /\ flexible = FALSE
    /\ showSlotlessLevels = FALSE
    /\ signatureSpells = {}
    /\ slots = EmptySlots
    /\ items \in IF actorKind = "creature" THEN InitialItems ELSE {<<>>}
    /\ _spells = Wiped
    /\ called = [name |-> "new"]
    /\ hostCalls = <<>>
    /\ result = Returned(<<>>)
    /\ pending = <<>>
    /\ issued = 0
    /\ focus = NoFocus
    /\ NoRule

Next == AddSpell \/ embeddedDocumentsResolved \/ prepareData \/ ReadSpells

Spec == Init /\ [][Next]_vars

\* The slot operations of a prepared entry whose actor holds one spell.
InitSlots ==
    /\ actorKind = "creature"
    /\ actorLevel = 1
    /\ prepared = "prepared"
    /\ flexible = FALSE
    /\ showSlotlessLevels = FALSE
    /\ signatureSpells = {}
    /\ slots = [l \in SlotLevels |-> [max |-> MaxSlots, value |-> 0, prepared |-> <<>>]]
    /\ items \in [{1} -> { d \in ItemData : /\ d.location = EntryId
                                                /\ d.level \in {1, MaxLevel}
                                                /\ Unheightened(d)
                                                /\ ~d.isFocusSpell /\ ~d.isRitual }]
    /\ _spells = Wiped
    /\ called = [name |-> "new"]
    /\ hostCalls = <<>>
    /\ result = Returned(<<>>)
    /\ pending = <<>>
    /\ issued = 0
    /\ focus = NoFocus
    /\ NoRule

NextSlots == PrepareSpell \/ UnprepareSpell \/ SetSlotExpendedState \/ updateResolved

SpecSlots == InitSlots /\ [][NextSlots]_vars

\* The sheet data of any entry: the entry's data, its actor's spells and its
\* slots are drawn, and getSpellData is applied.
SlotRecordForms ==
    { [id |-> i] : i \in SpellIds }
    \cup { [id |-> i, expended |-> TRUE] : i \in SpellIds }
    \cup { [name |-> SpellSlotEmpty, id |-> NullId, prepared |-> FALSE] }

\* data.slots with the given max per level and at most MaxSlotRecords records.
SlotData ==
    { sl \in [SlotLevels -> [max : {0, MaxSlots}, value : {0},
                             prepared : UNION { [P -> SlotRecordForms] :
                                                P \in SUBSET SlotPositions }]] :
        Cardinality(SlotRecords(sl)) <= MaxSlotRecords }

InitSheet ==
    /\ actorKind \in {"creature", "other"}
    /\ actorLevel \in {1, 2 * MaxLevel - 1}
    /\ prepared \in PreparationTypes
    /\ flexible \in IF prepared = "prepared" THEN BOOLEAN ELSE {FALSE}
    /\ showSlotlessLevels \in BOOLEAN
    /\ signatureSpells \in SUBSET SpellIds
    /\ slots \in IF actorKind = "creature" THEN SlotData ELSE {EmptySlots}
    /\ items \in IF actorKind = "creature"
                 THEN UNION { [S -> { d \in ItemData : d.location # "" /\ ~d.isRitual
                                                       /\ ~d.isFocusSpell }] :
                              S \in SUBSET SpellIds }
                 ELSE {<<>>}
    /\ _spells = Wiped
    /\ called = [name |-> "new"]
    /\ hostCalls = <<>>
    /\ result = Returned(<<>>)
    /\ pending = <<>>
    /\ issued = 0
    /\ focus \in IF prepared = "focus" THEN FocusPools ELSE {NoFocus}
    /\ NoRule

NextSheet == getSpellData

SpecSheet == InitSheet /\ [][NextSheet]_vars

\* A rule element on an actor of any valid type, with any short add and remove
\* lists. The actor's roll options start as its traits give them.
RECURSIVE SeqsUpTo(_, _)
SeqsUpTo(S, n) ==
    IF n = 0 THEN {<<>>}
    ELSE LET shorter == SeqsUpTo(S, n - 1)
         IN  shorter \cup { Append(q, x) : q \in shorter, x \in S }

InitTraits ==
    /\ actorKind = "creature"
    /\ actorLevel = 1
    /\ prepared = "prepared"
    /\ flexible = FALSE
    /\ showSlotlessLevels = FALSE
    /\ signatureSpells = {}
    /\ slots = EmptySlots
    /\ items = <<>>
    /\ _spells = Wiped
    /\ called = [name |-> "new"]
    /\ hostCalls = <<>>
    /\ result = Returned(<<>>)
    /\ pending = <<>>
    /\ issued = 0
    /\ focus = NoFocus
    /\ actorType \in ActorTypes
    /\ traits \in {[present |-> FALSE, value |-> <<>>]}
                  \cup { [present |-> TRUE, value |-> v] : v \in SeqsUpTo(TraitNames, 1) }
    /\ rollOptions = { TraitOption(traits.value[k]) : k \in 1 .. Len(traits.value) }
                     \cup {ModeOption(IF Includes(traits.value, "undead")
                                      THEN "undead" ELSE "living")}
    /\ add \in SeqsUpTo(TraitNames, MaxRuleTraits)
    /\ remove \in SeqsUpTo(TraitNames, MaxRuleTraits)
    /\ validationFailures = <<>>

NextTraits == OnApplyActiveEffects

SpecTraits == InitTraits /\ [][NextTraits]_vars

----------------------------------------------------------------------------
\* Claims about the spells collection and addSpell (checked under Spec).

\* C1: addSpell on an entry owned by a creature returns an empty list and makes
\* no host call when the spell is already located in this entry at the target
\* level; otherwise it makes exactly one host call, carrying the spell's data
\* with the location set to this entry's id, an update when the spell belongs to
\* the entry's actor and a create when it does not.
C1_AddSpellContract ==
    (called.name = "addSpell" /\ actorKind = "creature") =>
        LET spell == called.spell
            targetLevel == called.targetLevel
        IN  IF spell.location = EntryId /\ spell.heightenedLevel = targetLevel
            THEN result = Returned(<<>>) /\ hostCalls = <<>>
            ELSE /\ Len(hostCalls) = 1
                 /\ hostCalls[1].data.location = EntryId
                 /\ hostCalls[1].data.id = spell.id
                 /\ hostCalls[1].data.level = spell.level
                 /\ hostCalls[1].data.isCantrip = spell.isCantrip
                 /\ hostCalls[1].data.isFocusSpell = spell.isFocusSpell
                 /\ hostCalls[1].data.isRitual = spell.isRitual
                 /\ (spell.actor = ActorId => hostCalls[1].op = "update")
                 /\ (spell.actor # ActorId => hostCalls[1].op = "create")

\* An addSpell that created a copy of another actor's spell in this entry.
C1_Witness ==
    /\ called.name = "addSpell"
    /\ actorKind = "creature"
    /\ called.spell.actor = OtherActorId
    /\ Len(hostCalls) = 1
    /\ hostCalls[1].op = "create"

\* C3: the spells collection contains all spells contained in this entry. At
\* every read, in any sequence of addSpell, prepareData and reads, it holds
\* exactly the owning actor's spells whose location is this entry's id, and
\* none when the entry has no actor; prepareData wipes the cached collection,
\* and a read leaves the cache built with what it returned.
C3_ReadIsAlwaysCurrent ==
    /\ called.name = "spells" =>
        /\ result.value = IF actorKind = "none" THEN {}
                          ELSE { i \in DOMAIN items : items[i].location = EntryId }
        /\ _spells = Collection(result.value)
    /\ called.name = "prepareData" => _spells = Wiped

\* A read that holds a spell addSpell had the host create in this entry, with
\* no host call left pending.
C3_Witness ==
    /\ called.name = "spells"
    /\ issued > 0
    /\ pending = <<>>
    /\ \E i \in result.value : i > MaxSpells

----------------------------------------------------------------------------
\* Claims about the prepared slots (checked under SpecSlots).

\* C2: prepareSpell refuses a spell whose level is greater than spellLevel,
\* unless spellLevel is 0 and the spell is a cantrip. Refusing, it issues no
\* update and leaves every slot as it was; otherwise it issues exactly one
\* update, which writes the spell's id into slot spellSlot of level spellLevel.
C2_PrepareSpellContract ==
    [][ called'.name = "prepareSpell" =>
            LET spell == called'.spell
                spellLevel == called'.spellLevel
                spellSlot == called'.spellSlot
            IN  IF spell.level > spellLevel /\ ~(spellLevel = 0 /\ spell.isCantrip)
                THEN hostCalls' = <<>> /\ pending' = pending /\ slots' = slots
                ELSE /\ Len(hostCalls') = 1
                     /\ pending' = Append(pending, hostCalls'[1])
                     /\ hostCalls'[1].op = "update"
                     /\ hostCalls'[1].level = spellLevel
                     /\ hostCalls'[1].position = spellSlot
                     /\ hostCalls'[1].set = [id |-> spell.id] ]_vars

\* A cantrip of level 1 prepared into a slot of level 0 that held a record.
C2_Witness ==
    /\ called.name = "prepareSpell"
    /\ called.spell.isCantrip
    /\ called.spell.level > called.spellLevel
    /\ Len(hostCalls) = 1
    /\ hostCalls[1].unset # {}
    /\ called.spellSlot \in DOMAIN slots[0].prepared

----------------------------------------------------------------------------
\* Claims about getSpellData (checked under SpecSheet).

\* The level a spell is actually of: its heightened level in a spontaneous
\* entry, its base level in any other.
OwnLevel(id) ==
    IF isSpontaneous THEN items[id].heightenedLevel ELSE items[id].level

\* The listings of the returned levels: <<k, j>> for the active spell at
\* position j of the k-th level.
Listings ==
    UNION { { <<k, j>> : j \in { i \in 1 .. Len(result.value.levels[k].active) :
                                    IsActiveSpell(result.value.levels[k].active[i]) } } :
            k \in 1 .. Len(result.value.levels) }

\* C4: in the result of getSpellData a spell listed under its own level (its
\* base level, or its heightened level in a spontaneous entry) is never marked
\* virtual, and a signature spell of a spontaneous or flexible entry listed
\* under any other level at or above its base level is marked both signature
\* and virtual.
C4_VirtualExactlyWhenOffLevel ==
    (called.name = "getSpellData" /\ result.status = "returned") =>
        \A kj \in Listings :
            LET res == result.value.levels[kj[1]]
                a == res.active[kj[2]]
            IN  /\ OwnLevel(a.spell) = res.level => ~HasFlag(a, "virtual")
                /\ ( /\ isSpontaneous \/ isFlexible
                     /\ a.spell \in signatureSpells
                     /\ OwnLevel(a.spell) # res.level
                     /\ res.level >= items[a.spell].level )
                   => (HasFlag(a, "signature") /\ HasFlag(a, "virtual"))

----------------------------------------------------------------------------
\* Claims about the actor traits rule element (checked under SpecTraits).

\* The traits of the add list not on the actor before the rule ran.
NewTraits == SelectSeq(add, LAMBDA t : ~Includes(traits.value, t))
\* The positions of the new traits no dictionary of the actor's type has.
Unrecognized ==
    { k \in 1 .. Len(NewTraits) :
        NewTraits[k] \notin
            (CASE actorType \in {"character", "familiar", "npc"} -> creatureTraits
               [] actorType = "hazard" -> hazardTraits
               [] actorType = "vehicle" -> vehicleTraits) }

\* C5: onApplyActiveEffects changes nothing when the rule's test fails or the
\* actor has no traits. Otherwise, on the first trait to add that is not on
\* the actor and not in the trait dictionary of the actor's type, the rule
\* fails validation with "<trait> is not a recognized trait" and stops: that
\* trait is not added, its self:trait roll option is not set, no later trait
\* is added and no removal is performed.
C5_StopsAtUnrecognizedTrait ==
    [][ called'.name = "onApplyActiveEffects" =>
            IF ~called'.test \/ ~traits.present
            THEN traits' = traits /\ rollOptions' = rollOptions
                 /\ validationFailures' = <<>>
            ELSE Unrecognized # {} =>
                    LET first == MinOf(Unrecognized)
                        trait == NewTraits[first]
                    IN  /\ validationFailures' = <<<<trait, "is not a recognized trait">>>>
                        /\ ~Includes(traits'.value, trait)
                        /\ TraitOption(trait) \notin rollOptions'
                        /\ traits'.value = traits.value \o SubSeq(NewTraits, 1, first - 1)
       ]_vars

====
